---- MODULE Spec2Model ----
(***************************************************************************)
(* Model of builtin_algorithm_hpo_tabular/sagemaker_xgboost_hpo.ipynb:     *)
(* the notebook's own logic, i.e. the column transforms, the shuffle and   *)
(* split, and the job orchestration (xgb.fit, tuner.fit, the HPO polling   *)
(* loop, the deploy steps), run cell by cell in order.                     *)
(***************************************************************************)
EXTENDS Integers, Sequences, FiniteSets, TLC

VARIABLES
    pc,          \* the notebook's position (the statement about to run)
    trainJob,    \* status of the training job on the service, "None" before xgb.fit
    tuneJob,     \* status of the tuning job on the service, "None" before tuner.fit
    launched,    \* training jobs the tuning job has launched so far
    running,     \* training jobs of the tuning job running now
    hpo_state,   \* the notebook variable hpo_state, "None" while unbound
    queries,     \* describe_hyper_parameter_tuning_job calls issued
    responses,   \* the statuses those calls returned, in order
    sleeps,      \* time.sleep(60) calls completed
    elapsed,     \* seconds slept in the polling loop
    printed,     \* the value printed as "HPO state:", "None" before the print
    error,       \* the call whose exception aborted the run, "None" otherwise
    deployedAt,  \* tuning job status at the moment tuner.deploy was invoked
    endpoints,   \* the predictors created so far
    csv_file,        \* rows of data/bank-additional/bank-additional-full.csv
    df_data,         \* the data frame read from it
    df_model_data,   \* the transformed data frame
    train_data,      \* the three partitions
    validation_data,
    test_data,
    files,       \* the local CSV files written: data/train.csv, ...
    s3,          \* the objects uploaded to the bucket, by key
    inputs,      \* the objects each fit call passed to its job, per channel
    requests,    \* the inference requests sent, in order
    y_real       \* the reference labels given to the classification reports

jobVars == <<trainJob, tuneJob, launched, running, hpo_state, queries,
             responses, sleeps, elapsed, printed, deployedAt, endpoints>>

dataVars == <<csv_file, df_data, df_model_data, train_data, validation_data,
              test_data, files, s3>>

useVars == <<inputs, requests, y_real>>

vars == <<pc, error, jobVars, dataVars, useVars>>

----------------------------------------------------------------------------
(* Bounds *)
MaxQueries == 4
MaxRows == 3       \* files of up to MaxRows rows are enumerated in full
MaxPermLen == 3    \* every shuffle of up to MaxPermLen rows is tried
MaxLen == 92       \* longer files, up to MaxLen rows, follow a fixed pattern

(* Program constants *)
PollInterval == 60
max_jobs == 20
max_parallel_jobs == 3

----------------------------------------------------------------------------
(* The job handle's status enum *)
NonTerminal == {"Pending", "InProgress"}
Terminal == {"Completed", "Failed", "Stopped"}
Status == NonTerminal \cup Terminal

----------------------------------------------------------------------------
(* Data frames: the column labels in order, the labels of the columns of    *)
(* dtype object, and the rows in order, each with its index label and its   *)
(* value per column.                                                        *)

SeqToSet(s) == {s[i] : i \in DOMAIN s}

NoFrame == [cols |-> << >>, obj |-> {}, rows |-> << >>]

(* the columns of the file, in file order *)
RawCols == <<"age", "job", "duration", "pdays", "emp.var.rate",
             "cons.price.idx", "cons.conf.idx", "euribor3m", "nr.employed", "y">>

(* the categorical columns and, per column, the indicator column of each    *)
(* of its values, the values in sorted order                                *)
Categorical == {"job", "y"}

Dummies ==
    << [col |-> "job", level |-> "admin.", name |-> "job_admin."],
       [col |-> "job", level |-> "retired", name |-> "job_retired"],
       [col |-> "job", level |-> "student", name |-> "job_student"],
       [col |-> "y", level |-> "no", name |-> "y_no"],
       [col |-> "y", level |-> "yes", name |-> "y_yes"] >>

PDays == {6, 999}
Jobs == {"admin.", "retired", "student"}
Targets == {"no", "yes"}

FileRow(p, j, t) ==
    [c \in SeqToSet(RawCols) |->
        CASE c = "pdays" -> p
          [] c = "job" -> j
          [] c = "y" -> t
          [] c = "age" -> 30
          [] OTHER -> 0]

FileRows == {FileRow(p, j, t) : p \in PDays, j \in Jobs, t \in Targets}

(* a file of n rows following a fixed pattern *)
PatternFile(n) ==
    [i \in 1..n |->
        FileRow(IF i % 2 = 0 THEN 6 ELSE 999,
                CASE i % 3 = 0 -> "admin." [] i % 3 = 1 -> "student" [] OTHER -> "retired",
                IF i % 4 = 0 THEN "yes" ELSE "no")]

Files ==
    UNION {[1..n -> FileRows] : n \in 0..MaxRows}
      \cup {PatternFile(n) : n \in (MaxRows + 1)..MaxLen}

(* pd.read_csv(..., sep=";"): rows are labelled 0..n-1; the columns of a    *)
(* file without rows all get dtype object                                   *)
ReadCsvFrame(file) ==
    [cols |-> RawCols,
     obj |-> IF Len(file) = 0 THEN SeqToSet(RawCols) ELSE Categorical,
     rows |-> [i \in 1..Len(file) |-> [idx |-> i - 1, v |-> file[i]]]]

(* df[c] = values: sets column c, appended as the last column when new *)
SetColumnToEnd(df, c, values) ==
    [cols |-> Append(SelectSeq(df.cols, LAMBDA d : d # c), c),
     obj |-> df.obj \ {c},
     rows |-> [i \in 1..Len(df.rows) |->
                 [idx |-> df.rows[i].idx,
                  v |-> [d \in (DOMAIN df.rows[i].v) \cup {c} |->
                            IF d = c THEN values[i] ELSE df.rows[i].v[d]]]]]

SetColumn(df, c, values) ==
    [cols |-> IF c \in SeqToSet(df.cols) THEN df.cols ELSE Append(df.cols, c),
     obj |-> df.obj \ {c},
     rows |-> [i \in 1..Len(df.rows) |->
                 [idx |-> df.rows[i].idx,
                  v |-> [d \in (DOMAIN df.rows[i].v) \cup {c} |->
                            IF d = c THEN values[i] ELSE df.rows[i].v[d]]]]]

(* np.where(df_data["pdays"] == 999, 1, 0) *)
NoPreviousContactSwapped(df) ==
    [i \in 1..Len(df.rows) |-> IF df.rows[i].v["pdays"] = 999 THEN 0 ELSE 1]

NoPreviousContact(df) ==
    [i \in 1..Len(df.rows) |-> IF df.rows[i].v["pdays"] = 999 THEN 1 ELSE 0]

(* np.where(np.in1d(df_data["job"], ["student", "retired", "unemployed"]), 1, 0) *)
NotWorking(df) ==
    [i \in 1..Len(df.rows) |->
        IF df.rows[i].v["job"] \in {"student", "retired", "unemployed"}
        THEN 1 ELSE 0]

(* df.drop(labels, axis=1): a new frame without the columns *)
Drop(df, labels) ==
    [cols |-> SelectSeq(df.cols, LAMBDA c : c \notin labels),
     obj |-> df.obj \ labels,
     rows |-> [i \in 1..Len(df.rows) |->
                 [idx |-> df.rows[i].idx,
                  v |-> [d \in (DOMAIN df.rows[i].v) \ labels |-> df.rows[i].v[d]]]]]

Dropped == {"duration", "emp.var.rate", "cons.price.idx", "cons.conf.idx",
            "euribor3m", "nr.employed"}

(* the indicator columns of column c: one per value present in the column *)
DummiesOfDropFirst(df, c) ==
    LET all == SelectSeq(Dummies, LAMBDA e :
                  /\ e.col = c
                  /\ \E i \in 1..Len(df.rows) : df.rows[i].v[c] = e.level)
    IN  IF all = << >> THEN all ELSE Tail(all)

DummiesOf(df, c) ==
    SelectSeq(Dummies, LAMBDA e :
        /\ e.col = c
        /\ \E i \in 1..Len(df.rows) : df.rows[i].v[c] = e.level)

RECURSIVE AllDummies(_, _)
AllDummies(df, cs) ==
    IF cs = << >> THEN << >>
    ELSE DummiesOf(df, Head(cs)) \o AllDummies(df, Tail(cs))

(* pd.get_dummies(df): the columns of dtype object are replaced by their    *)
(* indicator columns, which follow the columns that are kept                *)
GetDummies(df) ==
    LET keep == SelectSeq(df.cols, LAMBDA c : c \notin df.obj)
        enc == AllDummies(df, SelectSeq(df.cols, LAMBDA c : c \in df.obj))
        names == [j \in 1..Len(enc) |-> enc[j].name]
    IN  [cols |-> keep \o names,
         obj |-> {},
         rows |-> [i \in 1..Len(df.rows) |->
                     [idx |-> df.rows[i].idx,
                      v |-> [d \in SeqToSet(keep) \cup SeqToSet(names) |->
                                IF d \in SeqToSet(keep) THEN df.rows[i].v[d]
                                ELSE LET e == CHOOSE x \in SeqToSet(enc) : x.name = d
                                     IN  IF df.rows[i].v[e.col] = e.level THEN 1 ELSE 0]]]]

(* 0.7 and 0.9 as IEEE doubles: 8 * the 53-bit significand, in four 14-bit  *)
(* limbs, least significant first (0.7 = 6305039478318694 * 2^-53,          *)
(* 0.9 = 8106479329266893 * 2^-53)                                          *)
Limb == 16384
D07 == <<13104, 3276, 13107, 11468>>
D09 == <<9832, 6553, 9830, 14745>>

RECURSIVE BitLen(_)
BitLen(k) == IF k = 0 THEN 0 ELSE 1 + BitLen(k \div 2)

RECURSIVE Pow2(_)
Pow2(e) == IF e = 0 THEN 1 ELSE 2 * Pow2(e - 1)

(* int(d * n) for the double d and 0 <= n < 2^16: the exact product is      *)
(* k + f / 2^56 (f in limbs l0..l3); it is rounded to 53 significant bits,  *)
(* ties to even, which reaches k + 1 exactly when 2^56 - f <= 2^(s+2),      *)
(* s the bit length of k; int() then truncates                             *)
IntOfProduct(d, n) ==
    LET t0 == n * d[1]
        t1 == n * d[2] + (t0 \div Limb)
        t2 == n * d[3] + (t1 \div Limb)
        t3 == n * d[4] + (t2 \div Limb)
        k == t3 \div Limb
        low == (t1 % Limb) * Limb + (t0 % Limb)
    IN  IF /\ k >= 1
           /\ t3 % Limb = Limb - 1
           /\ t2 % Limb = Limb - 1
           /\ low >= Limb * Limb - Pow2(BitLen(k) + 2)
        THEN k + 1 ELSE k

(* [int(0.7 * len(df_model_data)), int(0.9*len(df_model_data))] *)
SplitPointsSwapped(n) == <<IntOfProduct(D09, n), IntOfProduct(D07, n)>>
SplitPoints(n) == <<IntOfProduct(D07, n), IntOfProduct(D09, n)>>

(* rows[lo:hi], a Python slice *)
Slice(rows, lo, hi) ==
    LET h == IF hi > Len(rows) THEN Len(rows) ELSE hi
    IN  IF lo >= h THEN << >> ELSE [i \in 1..(h - lo) |-> rows[lo + i]]

(* np.split(df, [a, b]): df[:a], df[a:b], df[b:] *)
NpSplit(df, at) ==
    << [df EXCEPT !.rows = Slice(df.rows, 0, at[1])],
       [df EXCEPT !.rows = Slice(df.rows, at[1], at[2])],
       [df EXCEPT !.rows = Slice(df.rows, at[2], Len(df.rows))] >>

(* the orders df.sample(frac=1, random_state=1729) may put n rows in: the   *)
(* seed fixes one permutation per n, which the model does not compute       *)
Shuffles(n) ==
    IF n <= MaxPermLen
    THEN {p \in [1..n -> 1..n] : \A i, j \in 1..n : p[i] = p[j] => i = j}
    ELSE {[i \in 1..n |-> i], [i \in 1..n |-> n + 1 - i],
          [i \in 1..n |-> (i % n) + 1]}

Sample(df, p) == [df EXCEPT !.rows = [i \in 1..Len(df.rows) |-> df.rows[p[i]]]]

----------------------------------------------------------------------------
(* df_data = pd.read_csv("./data/bank-additional/bank-additional-full.csv", sep=";") *)
ReadCsv ==
    /\ pc = "read_csv"
    /\ df_data' = ReadCsvFrame(csv_file)
    /\ pc' = "transform"
    /\ UNCHANGED <<error, jobVars, useVars, files, s3, csv_file, df_model_data, train_data,
                   validation_data, test_data>>

(* the column-transform cell: the two indicator columns are added to        *)
(* df_data, the six columns dropped and the rest one-hot encoded            *)
WithIndicators(df) ==
    LET withContact == SetColumn(df, "no_previous_contact", NoPreviousContact(df))
    IN  SetColumn(withContact, "not_working", NotWorking(withContact))

Transform ==
    /\ pc = "transform"
    /\ df_data' = WithIndicators(df_data)
    /\ df_model_data' = GetDummies(Drop(df_data', Dropped))
    /\ pc' = "split"
    /\ UNCHANGED <<error, jobVars, useVars, files, s3, csv_file, train_data, validation_data,
                   test_data>>

(* the statements of the column-transform cell applied to the frame df, up *)
(* to the first one that raises: df["pdays"], df["job"] and the drop raise  *)
(* KeyError for a missing label. frame is df as the assignments left it,    *)
(* out the new frame of the drop and get_dummies                            *)
ApplyCell(df) ==
    LET has1 == "pdays" \in SeqToSet(df.cols)
        s1 == IF has1
              THEN SetColumn(df, "no_previous_contact", NoPreviousContact(df))
              ELSE df
        has2 == has1 /\ "job" \in SeqToSet(s1.cols)
        s2 == IF has2 THEN SetColumn(s1, "not_working", NotWorking(s1)) ELSE s1
        has3 == has2 /\ Dropped \subseteq SeqToSet(s2.cols)
    IN  [ok |-> has3,
         frame |-> s2,
         out |-> IF has3 THEN GetDummies(Drop(s2, Dropped)) ELSE NoFrame]

(* the cell applied a second time, to the already transformed frame *)
TransformAgain ==
    /\ pc = "split"
    /\ LET r == ApplyCell(df_model_data)
       IN  IF r.ok
           THEN /\ df_model_data' = r.out
                /\ pc' = "transformed_again"
                /\ error' = error
           ELSE /\ df_model_data' = r.frame
                /\ pc' = "aborted"
                /\ error' = "KeyError"
    /\ UNCHANGED <<jobVars, useVars, files, s3, csv_file, df_data, train_data,
                   validation_data, test_data>>

(* train_data, validation_data, test_data = np.split(df_model_data.sample(...), [...]) *)
Split ==
    /\ pc = "split"
    /\ \E p \in Shuffles(Len(df_model_data.rows)) :
          LET parts == NpSplit(Sample(df_model_data, p),
                               SplitPoints(Len(df_model_data.rows)))
          IN  /\ train_data' = parts[1]
              /\ validation_data' = parts[2]
              /\ test_data' = parts[3]
    /\ pc' = "write_csv"
    /\ UNCHANGED <<error, jobVars, useVars, files, s3, csv_file, df_data, df_model_data>>

(* the columns of the one-hot encoded target *)
TargetCols == {"y_no", "y_yes"}

(* pd.concat([part["y_yes"], part.drop(["y_no", "y_yes"], axis=1)], axis=1) *)
TargetLast(part) ==
    LET rest == Drop(part, TargetCols)
    IN  [cols |-> rest.cols \o <<"y_yes">>,
         obj |-> rest.obj,
         rows |-> [i \in 1..Len(part.rows) |->
                     [idx |-> part.rows[i].idx,
                      v |-> [d \in SeqToSet(rest.cols) \cup {"y_yes"} |->
                                part.rows[i].v[d]]]]]

TargetFirst(part) ==
    LET rest == Drop(part, TargetCols)
    IN  [cols |-> <<"y_yes">> \o rest.cols,
         obj |-> rest.obj,
         rows |-> [i \in 1..Len(part.rows) |->
                     [idx |-> part.rows[i].idx,
                      v |-> [d \in SeqToSet(rest.cols) \cup {"y_yes"} |->
                                part.rows[i].v[d]]]]]

(* .to_csv(path, index=False, header=False): one line per row and nothing   *)
(* else, the line's fields being the row's values in column order           *)
ToCsv(df) ==
    [i \in 1..Len(df.rows) |->
        [j \in 1..Len(df.cols) |-> df.rows[i].v[df.cols[j]]]]

(* df.values: the rows' values in column order *)
Values(df) ==
    [i \in 1..Len(df.rows) |->
        [j \in 1..Len(df.cols) |-> df.rows[i].v[df.cols[j]]]]

FileNames == {"data/train.csv", "data/validation.csv", "data/test.csv"}
Absent == [present |-> FALSE, lines |-> << >>]
NoFiles == [n \in FileNames |-> Absent]

WrittenFiles(train, validation, test) ==
    [n \in FileNames |->
        [present |-> TRUE,
         lines |-> ToCsv(TargetFirst(CASE n = "data/train.csv" -> train
                                       [] n = "data/validation.csv" -> validation
                                       [] OTHER -> test))]]

(* the three to_csv statements; part["y_yes"] and the drop raise KeyError   *)
(* when the frame has no y_yes or no y_no column                            *)
WriteCsv ==
    /\ pc = "write_csv"
    /\ IF TargetCols \subseteq SeqToSet(train_data.cols)
       THEN /\ files' = WrittenFiles(train_data, validation_data, test_data)
            /\ pc' = "upload"
            /\ error' = error
       ELSE /\ files' = files
            /\ pc' = "aborted"
            /\ error' = "KeyError"
    /\ UNCHANGED <<jobVars, useVars, s3, csv_file, df_data, df_model_data,
                   train_data, validation_data, test_data>>

(* the bucket: sgmk_prefix and the keys under it *)
TrainKey == "sagemaker/xgboost-hpo/train.csv"
ValidationKey == "sagemaker/xgboost-hpo/validation.csv"
TestKey == "sagemaker/xgboost-hpo/test.csv"
Keys == {TrainKey, ValidationKey, TestKey}
NoObjects == [k \in Keys |-> Absent]

(* the upload_file statements: the key and the local file of each *)
UploadsWithTest ==
    {[key |-> TrainKey, file |-> "data/train.csv"],
     [key |-> ValidationKey, file |-> "data/validation.csv"],
     [key |-> TestKey, file |-> "data/test.csv"]}

Uploads ==
    {[key |-> TrainKey, file |-> "data/train.csv"],
     [key |-> ValidationKey, file |-> "data/validation.csv"]}

UploadObjects(store, fs) ==
    [k \in Keys |->
        IF \E u \in Uploads : u.key = k
        THEN LET u == CHOOSE x \in Uploads : x.key = k
             IN  [present |-> TRUE, lines |-> fs[u.file].lines]
        ELSE store[k]]

Upload ==
    /\ pc = "upload"
    /\ s3' = UploadObjects(s3, files)
    /\ pc' = "data_ready"
    /\ UNCHANGED <<error, jobVars, useVars, files, csv_file, df_data,
                   df_model_data, train_data, validation_data, test_data>>

(* s3_input_train, s3_input_validation: each channel names a key prefix,    *)
(* "s3://<bucket>/sagemaker/xgboost-hpo/train" and ".../validation"         *)
Channels ==
    [train |-> "sagemaker/xgboost-hpo/train",
     validation |-> "sagemaker/xgboost-hpo/validation"]

(* the keys that start with a prefix *)
StartsWith ==
    {<<TrainKey, "sagemaker/xgboost-hpo/train">>,
     <<ValidationKey, "sagemaker/xgboost-hpo/validation">>}

(* the objects a fit call passes to its job: per channel, the objects under *)
(* the channel's prefix                                                     *)
FitInputs(job, store) ==
    UNION {{[job |-> job, channel |-> ch, key |-> k] :
               k \in {x \in Keys : store[x].present /\ <<x, Channels[ch]>> \in StartsWith}} :
           ch \in DOMAIN Channels}

----------------------------------------------------------------------------
(* xgb.fit(..., wait=True): submit the training job ... *)
XgbFitSubmit ==
    /\ pc = "xgb_fit"
    /\ trainJob' \in NonTerminal
    /\ inputs' = inputs \cup FitInputs("xgb.fit", s3)
    /\ pc' = "xgb_fit_wait"
    /\ UNCHANGED <<dataVars, requests, y_real, tuneJob, launched, running, hpo_state, queries, responses,
                   sleeps, elapsed, printed, error, deployedAt, endpoints>>

(* ... and block until it has ended; a job that did not complete raises *)
XgbFitNoWait ==
    /\ pc = "xgb_fit_wait"
    /\ pc' = "xgb_deploy"
    /\ UNCHANGED <<dataVars, useVars, trainJob, tuneJob, launched, running, hpo_state, queries,
                   responses, sleeps, elapsed, printed, error, deployedAt,
                   endpoints>>

XgbFitReturn ==
    /\ pc = "xgb_fit_wait"
    /\ trainJob \in Terminal
    /\ \/ /\ trainJob \in {"Completed", "Stopped"}
          /\ pc' = "xgb_deploy"
          /\ error' = error
       \/ /\ trainJob \in {"Failed", "Stopped"}
          /\ pc' = "aborted"
          /\ error' = "xgb.fit"
    /\ UNCHANGED <<dataVars, useVars, trainJob, tuneJob, launched, running, hpo_state, queries,
                   responses, sleeps, elapsed, printed, deployedAt, endpoints>>

(* xgb_predictor = xgb.deploy(...) *)
XgbDeploy ==
    /\ pc = "xgb_deploy"
    /\ endpoints' = endpoints \cup {"xgb_predictor"}
    /\ pc' = "predict_initial"
    /\ UNCHANGED <<dataVars, useVars, trainJob, tuneJob, launched, running, hpo_state, queries,
                   responses, sleeps, elapsed, printed, error, deployedAt>>

(* predictions = predict_prob(xgb_predictor,                               *)
(*                            test_data.drop(["y_no", "y_yes"], axis=1).values) *)
PredictInitial ==
    /\ pc = "predict_initial"
    /\ requests' = Append(requests, [predictor |-> "xgb_predictor",
                                     body |-> Values(Drop(test_data, TargetCols))])
    /\ pc' = "report_initial"
    /\ UNCHANGED <<dataVars, inputs, y_real, error, jobVars>>

(* generate_classification_report(y_real=test_data["y_yes"].values, ...) *)
ReportInitial ==
    /\ pc = "report_initial"
    /\ y_real' = Append(y_real, [i \in 1..Len(test_data.rows) |->
                                    test_data.rows[i].v["y_yes"]])
    /\ pc' = "tuner_fit"
    /\ UNCHANGED <<dataVars, inputs, requests, error, jobVars>>

(* tuner.fit(...): submits the tuning job and returns without waiting *)
TunerFit ==
    /\ pc = "tuner_fit"
    /\ tuneJob' \in NonTerminal
    /\ inputs' = inputs \cup FitInputs("tuner.fit", s3)
    /\ pc' = "poll_init"
    /\ UNCHANGED <<dataVars, requests, y_real, trainJob, launched, running, hpo_state, queries, responses,
                   sleeps, elapsed, printed, error, deployedAt, endpoints>>

(* hpo_state = "InProgress" *)
PollInit ==
    /\ pc = "poll_init"
    /\ hpo_state' = "InProgress"
    /\ pc' = "poll_test"
    /\ UNCHANGED <<dataVars, useVars, trainJob, tuneJob, launched, running, queries, responses,
                   sleeps, elapsed, printed, error, deployedAt, endpoints>>

(* the loop condition of: while hpo_state == "InProgress" *)
LoopCondUntilCompleted(s) == s # "Completed"
LoopCondWithTimeout(s) == s = "InProgress" /\ queries < 2
LoopCond(s) == s = "InProgress"

PollTest ==
    /\ pc = "poll_test"
    /\ pc' = IF LoopCond(hpo_state) THEN "poll_query" ELSE "print_state"
    /\ UNCHANGED <<dataVars, useVars, trainJob, tuneJob, launched, running, hpo_state, queries,
                   responses, sleeps, elapsed, printed, error, deployedAt,
                   endpoints>>

(* hpo_state = sgmk_client.describe_hyper_parameter_tuning_job(...)[...]    *)
(* followed by print("-"); the call may raise, and nothing catches it      *)
PollQueryRetrying ==
    /\ pc = "poll_query"
    /\ queries < MaxQueries
    /\ queries' = queries + 1
    /\ \/ /\ hpo_state' = tuneJob
          /\ responses' = Append(responses, tuneJob)
          /\ pc' = "poll_sleep"
          /\ error' = error
       \/ /\ pc' = "poll_sleep"
          /\ error' = "describe"
          /\ UNCHANGED <<hpo_state, responses>>
    /\ UNCHANGED <<dataVars, useVars, trainJob, tuneJob, launched, running, sleeps, elapsed,
                   printed, deployedAt, endpoints>>

PollQueryStopping ==
    /\ pc = "poll_query"
    /\ queries < MaxQueries
    /\ queries' = queries + 1
    /\ tuneJob' = IF tuneJob \in {"Pending", "InProgress"} THEN "Stopped" ELSE "InProgress"
    /\ \/ /\ hpo_state' = tuneJob'
          /\ responses' = Append(responses, tuneJob')
          /\ pc' = "poll_sleep"
          /\ error' = error
       \/ /\ pc' = "aborted"
          /\ error' = "describe"
          /\ UNCHANGED <<hpo_state, responses>>
    /\ UNCHANGED <<dataVars, useVars, trainJob, launched, running, sleeps, elapsed,
                   printed, deployedAt, endpoints>>

PollQueryBreaking ==
    /\ pc = "poll_query"
    /\ queries < MaxQueries
    /\ queries' = queries + 1
    /\ \/ /\ hpo_state' = tuneJob
          /\ responses' = Append(responses, tuneJob)
          /\ pc' = IF tuneJob = "InProgress" THEN "poll_sleep" ELSE "poll_test"
          /\ error' = error
       \/ /\ pc' = "aborted"
          /\ error' = "describe"
          /\ UNCHANGED <<hpo_state, responses>>
    /\ UNCHANGED <<dataVars, useVars, trainJob, tuneJob, launched, running, sleeps, elapsed,
                   printed, deployedAt, endpoints>>

PollQuery ==
    /\ pc = "poll_query"
    /\ queries < MaxQueries
    /\ queries' = queries + 1
    /\ \/ /\ hpo_state' = tuneJob
          /\ responses' = Append(responses, tuneJob)
          /\ pc' = "poll_sleep"
          /\ error' = error
       \/ /\ pc' = "aborted"
          /\ error' = "describe"
          /\ UNCHANGED <<hpo_state, responses>>
    /\ UNCHANGED <<dataVars, useVars, trainJob, tuneJob, launched, running, sleeps, elapsed,
                   printed, deployedAt, endpoints>>

(* time.sleep(60) *)
PollSleep ==
    /\ pc = "poll_sleep"
    /\ sleeps' = sleeps + 1
    /\ elapsed' = elapsed + PollInterval
    /\ pc' = "poll_test"
    /\ UNCHANGED <<dataVars, useVars, trainJob, tuneJob, launched, running, hpo_state, queries,
                   responses, printed, error, deployedAt, endpoints>>

(* print("\nHPO state:", hpo_state) *)
PrintState ==
    /\ pc = "print_state"
    /\ printed' = hpo_state
    /\ pc' = "tuner_deploy"
    /\ UNCHANGED <<dataVars, useVars, trainJob, tuneJob, launched, running, hpo_state, queries,
                   responses, sleeps, elapsed, error, deployedAt, endpoints>>

(* best_model_predictor = tuner.deploy(...) *)
TunerDeploy ==
    /\ pc = "tuner_deploy"
    /\ deployedAt' = tuneJob
    /\ endpoints' = endpoints \cup {"best_model_predictor"}
    /\ pc' = "predict_best"
    /\ UNCHANGED <<dataVars, useVars, trainJob, tuneJob, launched, running, hpo_state, queries,
                   responses, sleeps, elapsed, printed, error>>

(* the last code cell: the predictions of the best model and their report *)
PredictBest ==
    /\ pc = "predict_best"
    /\ requests' = Append(requests, [predictor |-> "best_model_predictor",
                                     body |-> Values(Drop(test_data, TargetCols))])
    /\ y_real' = Append(y_real, [i \in 1..Len(test_data.rows) |->
                                    test_data.rows[i].v["y_yes"]])
    /\ pc' = "done"
    /\ UNCHANGED <<dataVars, inputs, error, jobVars>>

----------------------------------------------------------------------------
(* The external service, on its own schedule *)

(* the training job of xgb.fit *)
TrainAdvance ==
    /\ \/ trainJob = "Pending" /\ trainJob' \in {"InProgress", "Failed", "Stopped"}
       \/ trainJob = "InProgress" /\ trainJob' \in Terminal
    /\ UNCHANGED <<dataVars, useVars, pc, tuneJob, launched, running, hpo_state, queries,
                   responses, sleeps, elapsed, printed, error, deployedAt,
                   endpoints>>

(* the tuning job starts one of its max_jobs training jobs, at most        *)
(* max_parallel_jobs at a time                                             *)
ChildStart ==
    /\ tuneJob = "InProgress"
    /\ launched < max_jobs
    /\ running < max_parallel_jobs
    /\ launched' = launched + 1
    /\ running' = running + 1
    /\ UNCHANGED <<dataVars, useVars, pc, trainJob, tuneJob, hpo_state, queries, responses,
                   sleeps, elapsed, printed, error, deployedAt, endpoints>>

ChildFinish ==
    /\ tuneJob = "InProgress"
    /\ running > 0
    /\ running' = running - 1
    /\ UNCHANGED <<dataVars, useVars, pc, trainJob, tuneJob, launched, hpo_state, queries,
                   responses, sleeps, elapsed, printed, error, deployedAt,
                   endpoints>>

TuneAdvance ==
    /\ \/ /\ tuneJob = "Pending"
          /\ tuneJob' = "InProgress"
          /\ running' = running
       \/ /\ tuneJob = "InProgress"
          /\ launched = max_jobs
          /\ running = 0
          /\ tuneJob' = "Completed"
          /\ running' = running
       \/ /\ tuneJob \in NonTerminal
          /\ tuneJob' \in {"Failed", "Stopped"}
          /\ running' = 0
    /\ UNCHANGED <<dataVars, useVars, pc, trainJob, launched, hpo_state, queries, responses,
                   sleeps, elapsed, printed, error, deployedAt, endpoints>>

----------------------------------------------------------------------------
(* the data cells have run, here on a file of four rows *)
InitFile == PatternFile(4)
InitModelData == GetDummies(Drop(WithIndicators(ReadCsvFrame(InitFile)), Dropped))
InitParts == NpSplit(InitModelData, SplitPoints(Len(InitModelData.rows)))
InitFiles == WrittenFiles(InitParts[1], InitParts[2], InitParts[3])

Init ==
    /\ pc = "xgb_fit"
    /\ csv_file = InitFile
    /\ df_data = WithIndicators(ReadCsvFrame(InitFile))
    /\ df_model_data = InitModelData
    /\ train_data = InitParts[1]
    /\ validation_data = InitParts[2]
    /\ test_data = InitParts[3]
    /\ files = InitFiles
    /\ s3 = UploadObjects(NoObjects, InitFiles)
    /\ inputs = {}
    /\ requests = << >>
    /\ y_real = << >>
    /\ trainJob = "None"
    /\ tuneJob = "None"
    /\ launched = 0
    /\ running = 0
    /\ hpo_state = "None"
    /\ queries = 0
    /\ responses = << >>
    /\ sleeps = 0
    /\ elapsed = 0
    /\ printed = "None"
    /\ error = "None"
    /\ deployedAt = "None"
    /\ endpoints = {}

Notebook ==
    \/ XgbFitSubmit
    \/ XgbFitReturn
    \/ XgbDeploy
    \/ PredictInitial
    \/ ReportInitial
    \/ TunerFit
    \/ PollInit
    \/ PollTest
    \/ PollQuery
    \/ PollSleep
    \/ PrintState
    \/ TunerDeploy
    \/ PredictBest

Service ==
    \/ TrainAdvance
    \/ ChildStart
    \/ ChildFinish
    \/ TuneAdvance

Next ==
    \/ XgbFitSubmit
    \/ XgbFitReturn
    \/ XgbDeploy
    \/ PredictInitial
    \/ ReportInitial
    \/ TunerFit
    \/ PollInit
    \/ PollTest
    \/ PollQuery
    \/ PollSleep
    \/ PrintState
    \/ TunerDeploy
    \/ PredictBest
    \/ TrainAdvance
    \/ ChildStart
    \/ ChildFinish
    \/ TuneAdvance

Spec == Init /\ [][Next]_vars

(* The data cells, from the downloaded file to the three partitions *)
InitData ==
    /\ pc = "read_csv"
    /\ csv_file \in Files
    /\ df_data = NoFrame
    /\ df_model_data = NoFrame
    /\ train_data = NoFrame
    /\ validation_data = NoFrame
    /\ test_data = NoFrame
    /\ files = NoFiles
    /\ s3 = NoObjects
    /\ inputs = {}
    /\ requests = << >>
    /\ y_real = << >>
    /\ trainJob = "None"
    /\ tuneJob = "None"
    /\ launched = 0
    /\ running = 0
    /\ hpo_state = "None"
    /\ queries = 0
    /\ responses = << >>
    /\ sleeps = 0
    /\ elapsed = 0
    /\ printed = "None"
    /\ error = "None"
    /\ deployedAt = "None"
    /\ endpoints = {}

NextData ==
    \/ ReadCsv
    \/ Transform
    \/ Split
    \/ WriteCsv
    \/ Upload

SpecData == InitData /\ [][NextData]_vars

(* The column-transform cell, applied once and then to its own output *)
NextAgain ==
    \/ ReadCsv
    \/ Transform
    \/ TransformAgain

SpecAgain == InitData /\ [][NextAgain]_vars

(* The kernel runs one statement after the other: a statement that can run  *)
(* does run (sleep returns, a call returns or raises).                      *)
FairSpec == Spec /\ WF_vars(Notebook)

----------------------------------------------------------------------------
(* Properties of the job orchestration *)

LoopPcs == {"poll_test", "poll_query", "poll_sleep"}
AfterLoop == {"print_state", "tuner_deploy", "predict_best", "done"}

RECURSIVE LeadingInProgress(_)
LeadingInProgress(s) ==
    IF s = << >> \/ Head(s) # "InProgress" THEN 0
    ELSE 1 + LeadingInProgress(Tail(s))

(* C1: when the status source answers "InProgress" to the first M queries   *)
(* and a terminal value from then on, the loop issues exactly M+1 queries   *)
(* and hpo_state, and the value printed as the final state, is that         *)
(* terminal value.                                                          *)
C1_PollExact ==
    LET M == LeadingInProgress(responses) IN
    (M < Len(responses) /\ responses[M + 1] \in Terminal) =>
        /\ queries = M + 1
        /\ Len(responses) = M + 1
        /\ hpo_state = responses[M + 1]
        /\ pc \in {"poll_sleep", "poll_test"} \cup AfterLoop
        /\ printed \in {"None", responses[M + 1]}

C1_Witness ==
    /\ pc = "done"
    /\ responses = <<"InProgress", "InProgress", "Completed">>
    /\ queries = 3
    /\ printed = "Completed"

(* C2: whenever the polling loop has exited, the status it holds is         *)
(* terminal: neither InProgress nor Pending.                                *)
C2_ExitOnlyTerminal ==
    pc \in AfterLoop => hpo_state \in Terminal

(* C4: a failure of the status query ends the run: the error is not caught, *)
(* no further query is issued after it, and neither the final-state print   *)
(* nor tuner.deploy is reached.                                             *)
C4_QueryFailureAborts ==
    [][error' = "describe" =>
          /\ pc' = "aborted"
          /\ printed' = "None"
          /\ deployedAt' = "None"
          /\ "best_model_predictor" \notin endpoints'
          /\ (error = "describe" => queries' = queries)]_vars

C4_Witness ==
    /\ error = "describe"
    /\ pc = "aborted"
    /\ queries = 3
    /\ responses = <<"InProgress", "InProgress">>

(* C5: the loop has no maximum wait: it is left only on a status other than *)
(* "InProgress" (or on a raised error), it issues one query per fixed       *)
(* 60-second sleep, and while the status source answers "InProgress" it     *)
(* goes on to the next query, whatever the number of queries so far.        *)
C5_UnboundedLoop ==
    /\ [][(pc \in LoopPcs /\ pc' \notin LoopPcs) =>
             (hpo_state # "InProgress" \/ error' = "describe")]_vars
    /\ [](elapsed = PollInterval * sleeps)
    /\ [](sleeps <= queries /\ queries <= sleeps + 1)
    /\ \A k \in 0..(MaxQueries - 1) :
          (pc \in LoopPcs /\ hpo_state = "InProgress" /\ queries = k)
             ~> (queries = k + 1)

C5_Witness ==
    /\ pc = "poll_test"
    /\ hpo_state = "InProgress"
    /\ queries = MaxQueries
    /\ elapsed = PollInterval * MaxQueries
    /\ \A i \in 1..Len(responses) : responses[i] = "InProgress"

(* C6: a job status that has reached a terminal value never reverts to a    *)
(* non-terminal one, and a status query causes no status transition.        *)
C6_StatusMonotonic ==
    [][/\ (tuneJob \in Terminal => tuneJob' \in Terminal)
       /\ (trainJob \in Terminal => trainJob' \in Terminal)
       /\ (queries' # queries =>
              UNCHANGED <<tuneJob, trainJob, launched, running>>)]_vars

C6_Witness ==
    /\ tuneJob = "Stopped"
    /\ trainJob = "Completed"
    /\ queries = 3
    /\ responses = <<"InProgress", "InProgress", "Stopped">>

(* C7: the tuning job's status is terminal at the moment tuner.deploy is    *)
(* invoked.                                                                 *)
C7_DeployAfterFinished ==
    deployedAt \in Terminal \cup {"None"}

C14_SleepPerQuery ==
    /\ pc = "poll_sleep" => sleeps = queries - 1
    /\ pc = "poll_test" => sleeps = queries
    /\ pc \in AfterLoop =>
          /\ sleeps = queries
          /\ queries >= 1
          /\ sleeps = Len(responses)
          /\ elapsed = PollInterval * queries

C14_Witness ==
    /\ pc = "print_state"
    /\ responses = <<"Completed">>
    /\ queries = 1
    /\ sleeps = 1
    /\ elapsed = PollInterval

----------------------------------------------------------------------------
(* Properties of the data cells *)

AfterTransform == {"split", "write_csv", "upload", "data_ready"}
AfterSplit == {"write_csv", "upload", "data_ready"}

IdxSet(df) == {df.rows[i].idx : i \in DOMAIN df.rows}

(* C3: after the shuffle-and-split step the row counts of train_data,       *)
(* validation_data and test_data sum to the input row count N, for every N, *)
(* and every input row is in exactly one partition: none duplicated, none   *)
(* dropped.                                                                 *)
C3_PartitionExact ==
    pc \in AfterSplit =>
        /\ Len(df_model_data.rows) = Len(csv_file)
        /\ Len(train_data.rows) + Len(validation_data.rows) + Len(test_data.rows)
              = Len(csv_file)
        /\ IdxSet(train_data) \cap IdxSet(validation_data) = {}
        /\ IdxSet(train_data) \cap IdxSet(test_data) = {}
        /\ IdxSet(validation_data) \cap IdxSet(test_data) = {}
        /\ IdxSet(train_data) \cup IdxSet(validation_data) \cup IdxSet(test_data)
              = 0..(Len(csv_file) - 1)
        /\ \A part \in {train_data, validation_data, test_data} :
              /\ Cardinality(IdxSet(part)) = Len(part.rows)
              /\ \A i \in DOMAIN part.rows :
                    \E j \in DOMAIN df_model_data.rows :
                        df_model_data.rows[j] = part.rows[i]

C3_Witness ==
    /\ pc \in AfterSplit
    /\ Len(csv_file) = 90
    /\ Len(train_data.rows) = 62
    /\ Len(validation_data.rows) = 19
    /\ Len(test_data.rows) = 9
    /\ train_data.rows[1].idx = 89

(* C9: in every row, no_previous_contact is 1 exactly when pdays is 999     *)
(* and 0 otherwise; creating it changes neither the number of rows nor any  *)
(* existing column value.                                                   *)
C9_Indicator ==
    pc \in AfterTransform =>
        /\ Len(df_data.rows) = Len(csv_file)
        /\ Len(df_model_data.rows) = Len(csv_file)
        /\ SubSeq(df_data.cols, 1, Len(RawCols)) = RawCols
        /\ \A i \in DOMAIN csv_file :
              /\ df_data.rows[i].idx = i - 1
              /\ \A c \in SeqToSet(RawCols) : df_data.rows[i].v[c] = csv_file[i][c]
              /\ df_data.rows[i].v["no_previous_contact"] = 1
                    <=> csv_file[i]["pdays"] = 999
              /\ df_data.rows[i].v["no_previous_contact"] = 0
                    <=> csv_file[i]["pdays"] # 999
              /\ df_model_data.rows[i].v["no_previous_contact"]
                    = df_data.rows[i].v["no_previous_contact"]

C9_Witness ==
    /\ pc \in AfterTransform
    /\ Len(csv_file) = 2
    /\ csv_file[1]["pdays"] = 999
    /\ csv_file[2]["pdays"] = 6
    /\ df_data.rows[1].v["no_previous_contact"] = 1
    /\ df_data.rows[2].v["no_previous_contact"] = 0

RECURSIVE RowSum(_, _)
RowSum(row, cs) ==
    IF cs = {} THEN 0
    ELSE LET c == CHOOSE x \in cs : TRUE
         IN  row.v[c] + RowSum(row, cs \ {c})

(* the indicator columns of categorical column c in frame df *)
IndicatorCols(df, c) ==
    {n \in SeqToSet(df.cols) :
        \E j \in DOMAIN Dummies : Dummies[j].col = c /\ Dummies[j].name = n}

(* C10: one-hot expansion of a categorical column with k distinct values,   *)
(* the target y included, yields exactly k indicator columns, and in every  *)
(* row exactly one of them is 1: their row-wise sum is 1.                   *)
C10_OneHot ==
    pc \in AfterTransform =>
        \A c \in Categorical :
            LET k == Cardinality({csv_file[i][c] : i \in DOMAIN csv_file})
                ind == IndicatorCols(df_model_data, c)
            IN  /\ Cardinality(ind) = k
                /\ c \notin SeqToSet(df_model_data.cols)
                /\ \A r \in DOMAIN df_model_data.rows :
                      /\ \A n \in ind : df_model_data.rows[r].v[n] \in {0, 1}
                      /\ RowSum(df_model_data.rows[r], ind) = 1

C10_Witness ==
    /\ pc \in AfterTransform
    /\ Len(csv_file) = 3
    /\ IndicatorCols(df_model_data, "job") = {"job_admin.", "job_retired", "job_student"}
    /\ IndicatorCols(df_model_data, "y") = {"y_no", "y_yes"}
    /\ df_model_data.rows[1].v["y_yes"] = 1
    /\ df_model_data.rows[2].v["job_retired"] = 1

(* C13: train_data is the first floor(0.7*N) shuffled rows, validation_data *)
(* the next floor(0.9*N) - floor(0.7*N) rows and test_data the remaining    *)
(* N - floor(0.9*N) rows, with 0 <= floor(0.7*N) <= floor(0.9*N) <= N.      *)
C13_SplitSizes ==
    pc \in AfterSplit =>
        LET N == Len(csv_file)
            a == (7 * N) \div 10
            b == (9 * N) \div 10
        IN  /\ 0 <= a /\ a <= b /\ b <= N
            /\ Len(train_data.rows) = a
            /\ Len(validation_data.rows) = b - a
            /\ Len(test_data.rows) = N - b

(* the partition written to each local file *)
PartOf(n) ==
    CASE n = "data/train.csv" -> train_data
      [] n = "data/validation.csv" -> validation_data
      [] OTHER -> test_data

(* C11: each CSV file written has no header row and the target first: it    *)
(* has one line per row of its partition, and each line is the row's y_yes  *)
(* value followed by the row's other columns in their original order, with  *)
(* y_yes and y_no removed.                                                  *)
C11_CsvTargetFirst ==
    /\ pc \in {"upload", "data_ready"} => \A n \in FileNames : files[n].present
    /\ \A n \in FileNames :
          files[n].present =>
              LET part == PartOf(n)
                  lines == files[n].lines
                  rest == SelectSeq(part.cols, LAMBDA c : c \notin {"y_yes", "y_no"})
              IN  /\ Len(lines) = Len(part.rows)
                  /\ Len(rest) = Len(part.cols) - 2
                  /\ \A i \in DOMAIN lines :
                        /\ Len(lines[i]) = Len(rest) + 1
                        /\ lines[i][1] = part.rows[i].v["y_yes"]
                        /\ \A j \in DOMAIN rest :
                              lines[i][j + 1] = part.rows[i].v[rest[j]]

C11_Witness ==
    /\ pc = "upload"
    /\ Len(csv_file) = 10
    /\ Len(files["data/train.csv"].lines) = 7
    /\ Len(files["data/validation.csv"].lines) = 2
    /\ Len(files["data/test.csv"].lines) = 1
    /\ \E i \in 1..7 : files["data/train.csv"].lines[i][1] = 1
    /\ \E i \in 1..7 : files["data/train.csv"].lines[i][1] = 0

(* C12: applying the column-transform step to already transformed data ends *)
(* in a missing-column error: the second application produces no            *)
(* transformed output and leaves the already transformed data unchanged.    *)
C12_SecondApplicationFails ==
    [][pc = "split" /\ pc' # "split" =>
          /\ pc' = "aborted"
          /\ error' = "KeyError"
          /\ df_model_data' = df_model_data
          /\ df_data' = df_data]_vars

C12_Witness ==
    /\ pc = "aborted"
    /\ error = "KeyError"
    /\ Len(df_model_data.rows) = 3
    /\ "pdays" \in SeqToSet(df_model_data.cols)
    /\ "job" \notin SeqToSet(df_model_data.cols)
    /\ "job_student" \in SeqToSet(df_model_data.cols)

(* C15: the holdout partition never reaches training. Only the train and    *)
(* validation files are stored under the training prefix, each fit call     *)
(* reads the train and validation objects only, and test_data is used only  *)
(* with the target columns removed as the body of an inference request and  *)
(* as the reference labels of a report; no holdout row is a training or     *)
(* validation row.                                                          *)
C15_HoldoutNeverTrains ==
    /\ \A k \in Keys : s3[k].present => k \in {TrainKey, ValidationKey}
    /\ s3[TrainKey].present => s3[TrainKey].lines = files["data/train.csv"].lines
    /\ s3[ValidationKey].present =>
           s3[ValidationKey].lines = files["data/validation.csv"].lines
    /\ \A x \in inputs :
           \/ x.channel = "train" /\ x.key = TrainKey
           \/ x.channel = "validation" /\ x.key = ValidationKey
    /\ \A i \in 1..Len(requests) :
           /\ Len(requests[i].body) = Len(test_data.rows)
           /\ \A r \in 1..Len(test_data.rows) :
                  /\ Len(requests[i].body[r]) = Len(test_data.cols) - 2
                  /\ requests[i].body[r] =
                         [j \in 1..(Len(test_data.cols) - 2) |->
                             test_data.rows[r].v[
                                 SelectSeq(test_data.cols,
                                           LAMBDA c : c \notin TargetCols)[j]]]
    /\ \A i \in 1..Len(y_real) :
           y_real[i] = [r \in 1..Len(test_data.rows) |->
                           test_data.rows[r].v["y_yes"]]
    /\ IdxSet(test_data) \cap (IdxSet(train_data) \cup IdxSet(validation_data)) = {}

C15_Witness ==
    /\ pc = "done"
    /\ Len(test_data.rows) > 0
    /\ Len(requests) = 2
    /\ Len(y_real) = 2
    /\ {x.job : x \in inputs} = {"xgb.fit", "tuner.fit"}
    /\ Cardinality(inputs) = 4
    /\ ~s3[TestKey].present

====
